---- MODULE Spec2Model ----
(***************************************************************************)
(* Model of tlsrpt-extractor (src/index.ts): the TLS-RPT report extractor. *)
(* The file holds two programs: the collect-then-flush program (lines      *)
(* 1-298) and the write-as-you-go program (lines 300-538).                 *)
(*                                                                         *)
(* Strings are sequences of one-character strings, so that the regular     *)
(* expressions and the case conversions of the code act on characters.     *)
(* An optional field (a property that may be undefined) is a sequence of   *)
(* zero or one values.  A JavaScript object is a function from its keys.   *)
(***************************************************************************)
EXTENDS Integers, Sequences, FiniteSets, TLC

\* ------------------------------------------------------------------ bounds
\* longest attachment file name drawn
MaxNameLen == 3
\* most policies in a drawn report
MaxPolicies == 2
\* most failure details in a drawn policy
MaxDetails == 2
\* most nodes (parts and arrays) in a drawn MIME structure
MaxNodes == 4
\* most attachments in a drawn batch of messages
MaxAttachments == 2
\* most records the attachments of a drawn batch hold together
MaxRecords == 3

\* ----------------------------------------------------------------- strings
Lower == <<"a","b","c","d","e","f","g","h","i","j","k","l","m",
           "n","o","p","q","r","s","t","u","v","w","x","y","z">>
Upper == <<"A","B","C","D","E","F","G","H","I","J","K","L","M",
           "N","O","P","Q","R","S","T","U","V","W","X","Y","Z">>
DigitChars == <<"0","1","2","3","4","5","6","7","8","9">>

Range(f) == { f[i] : i \in DOMAIN f }

Min(S) == CHOOSE x \in S : \A y \in S : x <= y

\* String.prototype.toUpperCase, character by character
toUpperCase(s) ==
  [ i \in DOMAIN s |->
      IF \E k \in DOMAIN Lower : Lower[k] = s[i]
      THEN Upper[CHOOSE k \in DOMAIN Lower : Lower[k] = s[i]]
      ELSE s[i] ]

\* String.prototype.toLowerCase, character by character
toLowerCase(s) ==
  [ i \in DOMAIN s |->
      IF \E k \in DOMAIN Upper : Upper[k] = s[i]
      THEN Lower[CHOOSE k \in DOMAIN Upper : Upper[k] = s[i]]
      ELSE s[i] ]

\* Array.prototype.indexOf: the zero-based place of the first x, or -1
indexOf(arr, x) ==
  IF \E i \in DOMAIN arr : arr[i] = x
  THEN Min({ i \in DOMAIN arr : arr[i] = x }) - 1
  ELSE -1

\* the decimal text of a number, as a template literal `${index}` writes it
RECURSIVE NumberToString(_)
NumberToString(n) ==
  IF n < 10 THEN << DigitChars[n + 1] >>
  ELSE NumberToString(n \div 10) \o << DigitChars[(n % 10) + 1] >>

\* the character class [\w\d_-] under the i flag
IsWordChar(c) ==
  c \in Range(Lower) \cup Range(Upper) \cup Range(DigitChars) \cup {"_", "-"}

\* ------------------------------------------------------------- file names
\* filename.match(/(.+?)(\.[^.]*$|$)/)[1]: the shortest non-empty prefix
\* that is followed by the end of the name or by its last dot and what
\* follows it.  The name is not empty (match would return null).
MatchBase(filename) ==
  LET Ends(k) ==
        \/ k = Len(filename)
        \/ /\ filename[k + 1] = "."
           /\ \A j \in (k + 2)..Len(filename) : filename[j] # "."
  IN SubSeq(filename, 1, Min({ k \in 1..Len(filename) : Ends(k) }))

\* the places where /(\.[\w\d_-]+)$/i matches: a dot followed, up to the
\* end of the name, by one or more characters of the class
ExtensionStarts(name) ==
  { p \in 1..(Len(name) - 1) :
      /\ name[p] = "."
      /\ \A j \in (p + 1)..Len(name) : IsWordChar(name[j]) }

\* this.filename.replace(/(\.[\w\d_-]+)$/i, `-${index}$1`)
IndexedName(filename, index) ==
  IF ExtensionStarts(filename) = {} THEN filename
  ELSE LET p == Min(ExtensionStarts(filename))
       IN SubSeq(filename, 1, p - 1) \o <<"-">> \o NumberToString(index)
            \o SubSeq(filename, p, Len(filename))

\* ------------------------------------------------------------ JSON values
\* the object without one key: `delete obj[key]`, and the rest pattern
\* `{ policies, ...reportMetadata }`
DeleteProperty(obj, key) == [ k \in (DOMAIN obj) \ {key} |-> obj[k] ]

\* a text (the accumulated `tlsreport`) is the JSON of one value, or is not
\* valid JSON at all: a sequence of at most one value
NotJSON == << >>

\* JSON.stringify(value)
JSONstringify(value) == << value >>

\* JSON.parse(text) returns a value unless it throws a SyntaxError
JSONparseThrows(text) == text = NotJSON
JSONparse(text) == text[1]

\* ------------------------------------------------------------ class Report
\* constructor(report, filename)
NewReport(report, filename) ==
  [ metadata  |-> DeleteProperty(report, "policies"),
    policies  |-> report["policies"],
    filename  |-> filename,
    processed |-> << >> ]

\* the deletion left out (the mutant of StripFailureCount)
KeepFailureCount(policy) == policy

\* `delete policy.summary["total-failure-session-count"]`
StripFailureCount(policy) ==
  [ policy EXCEPT !["summary"] =
      DeleteProperty(@, "total-failure-session-count") ]

\* the object literal `{ policies: {...}, ...this.metadata }`: a later key of
\* the literal overrides an earlier one
ProcessedReport(metadata, policies) == metadata @@ ("policies" :> policies)

\* the records one policy adds to `processed` (the body of the forEach)
PolicyRecords(metadata, policy) ==
  IF "failure-details" \in DOMAIN policy
  THEN [ j \in 1..Len(policy["failure-details"]) |->
           ProcessedReport(metadata,
             ("policy" :> policy["policy"]) @@ ("summary" :> policy["summary"])
               @@ ("failure-details" :> policy["failure-details"][j])) ]
  ELSE << ProcessedReport(metadata,
             ("policy" :> policy["policy"]) @@ ("summary" :> policy["summary"])) >>

\* processReport(): this.policies.forEach, from policy i on
RECURSIVE ProcessFrom(_, _)
ProcessFrom(this, i) ==
  IF i > Len(this.policies) THEN this
  ELSE LET policy == StripFailureCount(this.policies[i])
       IN ProcessFrom(
            [ this EXCEPT !.policies[i] = policy,
                          !.processed = @ \o PolicyRecords(this.metadata, policy) ],
            i + 1)

\* processReport() run a second time on the same Report (the mutant of
\* processReport)
ProcessTwice(this) == ProcessFrom(ProcessFrom(this, 1), 1)

processReport(this) == ProcessFrom(this, 1)

\* the file writes writeReports() issues, in the order of processed.entries()
ReportWrites(this) ==
  [ k \in 1..Len(this.processed) |->
      [ filename |-> IndexedName(this.filename, k - 1),
        data     |-> JSONstringify(this.processed[k]) ] ]

\* --------------------------------------------------- the MIME structure
\* A node of attrs.struct is a part (an object) or an array of nodes.  An
\* array node is [items |-> <<...>>]; a part has partID, encoding, subtype,
\* disposition (at most one {type, params}) and, as the bytes the server
\* sends for it, body.
IsArray(node) == "items" \in DOMAIN node

INLINE == <<"I","N","L","I","N","E">>
ATTACHMENT == <<"A","T","T","A","C","H","M","E","N","T">>

\* a number as a condition: 0 is false, every other number is true
Truthy(n) == n # 0

\* the condition of the inner forEach: `part.disposition && [...].indexOf(...)`
\* (a nested array has no disposition property)
IsSelected(part) ==
  /\ ~IsArray(part)
  /\ part.disposition # << >>
  /\ Truthy(indexOf(<<INLINE, ATTACHMENT>>, toUpperCase(part.disposition[1].type)))

\* the parts one element of attrs.struct adds to `attachments`
ElementAttachments(element) ==
  IF ~IsArray(element) THEN << >> ELSE SelectSeq(element.items, IsSelected)

RECURSIVE FindFrom(_, _)
FindFrom(struct, i) ==
  IF i > Len(struct) THEN << >>
  ELSE ElementAttachments(struct[i]) \o FindFrom(struct, i + 1)

\* findAttachment(attrs)
findAttachment(attrs) == FindFrom(attrs.struct, 1)

\* ------------------------------------------------------- the decode chain
base64 == <<"b","a","s","e","6","4">>
gzip == <<"g","z","i","p">>

\* String.prototype.search with a literal pattern: the zero-based place of
\* its first occurrence, or -1
search(s, pattern) ==
  LET At == { i \in 1..(Len(s) - Len(pattern) + 1) :
                SubSeq(s, i, i + Len(pattern) - 1) = pattern }
  IN IF At = {} THEN -1 ELSE Min(At) - 1

\* the two pipes in the other order (the mutant of DecoderStages)
GunzipFirst(attachment) ==
  (IF search(attachment.subtype, gzip) # -1 THEN <<"Gunzip">> ELSE << >>)
    \o (IF toLowerCase(attachment.encoding) = base64 THEN <<"Base64Decode">> ELSE << >>)

\* the stages the body handler pipes the stream through, in order
DecoderStages(attachment) ==
  (IF toLowerCase(attachment.encoding) = base64 THEN <<"Base64Decode">> ELSE << >>)
    \o (IF search(attachment.subtype, gzip) # -1 THEN <<"Gunzip">> ELSE << >>)

\* The bytes of a body are a text under layers of encoding, outermost
\* first: "base64", "gzip", or "badgzip" for a gzip stream that is corrupt.
\* Bytes nothing can decode:
Garbage == [layers |-> <<"garbage">>, text |-> NotJSON]

\* one stage applied to the bytes: Base64Decode never fails, it turns what
\* is not base64 into other bytes; Gunzip emits 'error' on what is not gzip
StageErrors(stage, bytes) ==
  stage = "Gunzip" /\ (bytes.layers = << >> \/ Head(bytes.layers) # "gzip")

StageOutput(stage, bytes) ==
  IF bytes.layers # << >>
     /\ \/ stage = "Base64Decode" /\ Head(bytes.layers) = "base64"
        \/ stage = "Gunzip" /\ Head(bytes.layers) = "gzip"
  THEN [bytes EXCEPT !.layers = Tail(@)]
  ELSE Garbage

\* the whole chain: an 'error' event of a stage, or the text accumulated in
\* `tlsreport` when the last stage ends
RECURSIVE Decode(_, _)
Decode(stages, bytes) ==
  IF stages = << >>
  THEN [error |-> FALSE,
        text  |-> IF bytes.layers = << >> THEN bytes.text ELSE NotJSON]
  ELSE IF StageErrors(Head(stages), bytes)
       THEN [error |-> TRUE, text |-> NotJSON]
       ELSE Decode(Tail(stages), StageOutput(Head(stages), bytes))

\* ------------------------------------------------------------- the state
VARIABLES
  messages,   \* the messages the search found: each the attrs {uid, struct}
  delivered,  \* how many of them have had their 'attributes' event
  imapEnded,  \* the first fetch has ended and imap.end() was called
  fetches,    \* the per-attachment fetches, in the order they were issued
  reports,    \* the array `reports` of Report objects
  fileOps,    \* the fs.writeFile calls issued, in order, with their progress
  closed,     \* the 'close' handler has run
  crashed     \* an exception reached the event loop: the process is gone

vars == << messages, delivered, imapEnded, fetches, reports, fileOps,
           closed, crashed >>

\* --------------------------------------------------------------- handlers
\* msg.once("attributes"): find the attachments, issue one fetch for each
NewFetch(attrs, attachment) ==
  [ uid        |-> attrs.uid,
    attachment |-> attachment,
    phase      |-> "fetching",
    filename   |-> << >>,
    stages     |-> << >>,
    report     |-> 0 ]

MessageAttributes ==
  /\ ~crashed /\ ~closed
  /\ delivered < Len(messages)
  /\ LET attrs == messages[delivered + 1]
         attachments == findAttachment(attrs)
     IN fetches' = fetches \o
          [ k \in 1..Len(attachments) |-> NewFetch(attrs, attachments[k]) ]
  /\ delivered' = delivered + 1
  /\ UNCHANGED << messages, imapEnded, reports, fileOps, closed, crashed >>

\* f.once("end"): every message of the first fetch was delivered
FetchEnd ==
  /\ ~crashed /\ ~closed /\ ~imapEnded
  /\ delivered = Len(messages)
  /\ imapEnded' = TRUE
  /\ UNCHANGED << messages, delivered, fetches, reports, fileOps, closed,
                  crashed >>

\* the connection serves its commands in the order they were issued: the
\* first fetch, the per-attachment fetches, then the LOGOUT of imap.end()
NextBody(k) ==
  /\ k \in DOMAIN fetches
  /\ fetches[k].phase = "fetching"
  /\ \A j \in 1..(k - 1) : fetches[j].phase # "fetching"

\* `attachment.disposition.params.filename.match(...)` throws a TypeError
\* when there is no filename, and when match returns null (an empty name)
FilenameThrows(attachment) ==
  \/ attachment.disposition[1].params.filename = << >>
  \/ attachment.disposition[1].params.filename[1] = << >>

\* msgFetch.on("body"): an async function, so that what it throws is an
\* unhandled rejection, which ends the process or only warns, by the runtime
Body(k) ==
  /\ ~crashed /\ ~closed /\ imapEnded
  /\ NextBody(k)
  /\ LET attachment == fetches[k].attachment
     IN IF FilenameThrows(attachment)
        THEN /\ fetches' = [fetches EXCEPT ![k].phase = "rejected"]
             /\ crashed' \in BOOLEAN
        ELSE /\ fetches' = [fetches EXCEPT
                  ![k].phase = "streaming",
                  ![k].filename =
                     << MatchBase(attachment.disposition[1].params.filename[1]) >>,
                  ![k].stages = DecoderStages(attachment)]
             /\ UNCHANGED crashed
  /\ UNCHANGED << messages, delivered, imapEnded, reports, fileOps, closed >>

\* the loop over processed.entries() run from the last record to the first
\* (the mutant of IssuedWrites)
IssuedBackwards(this, r) ==
  [ k \in 1..Len(ReportWrites(this)) |->
      LET j == Len(ReportWrites(this)) + 1 - k
      IN [ report   |-> r,
           index    |-> j - 1,
           filename |-> ReportWrites(this)[j].filename,
           data     |-> ReportWrites(this)[j].data,
           state    |-> "writing",
           wrote    |-> "pending",
           owned    |-> "none" ] ]

\* fs.chown called beside fs.writeFile instead of inside its callback (the
\* mutant of IssuedWrites)
ChownBesideWrite(this, r) ==
  [ k \in 1..Len(ReportWrites(this)) |->
      [ report   |-> r,
        index    |-> k - 1,
        filename |-> ReportWrites(this)[k].filename,
        data     |-> ReportWrites(this)[k].data,
        state    |-> "chowning",
        wrote    |-> "pending",
        owned    |-> "pending" ] ]

\* writeReports() of the Report at place r of `reports`: the fs.writeFile
\* calls it issues, each waiting for its callback.  `wrote` is how the write
\* ended and `owned` how the chown did ("none": no chown was issued).
IssuedWrites(this, r) ==
  [ k \in 1..Len(ReportWrites(this)) |->
      [ report   |-> r,
        index    |-> k - 1,
        filename |-> ReportWrites(this)[k].filename,
        data     |-> ReportWrites(this)[k].data,
        state    |-> "writing",
        wrote    |-> "pending",
        owned    |-> "none" ] ]

RECURSIVE WritesFrom(_, _)
WritesFrom(rs, r) ==
  IF r > Len(rs) THEN << >>
  ELSE IssuedWrites(rs[r], r) \o WritesFrom(rs, r + 1)

\* the 'end' handler that writes at once, as the write-as-you-go program
\* does (the mutant of StreamEnd)
StreamEndWriting(k) ==
  /\ ~crashed
  /\ k \in DOMAIN fetches
  /\ fetches[k].phase = "streaming"
  /\ LET decoded == Decode(fetches[k].stages, fetches[k].attachment.body)
     IN IF decoded.error \/ JSONparseThrows(decoded.text)
        THEN /\ crashed' = TRUE
             /\ fetches' = [fetches EXCEPT ![k].phase = "failed"]
             /\ UNCHANGED << reports, fileOps >>
        ELSE /\ reports' = Append(reports,
                  processReport(NewReport(JSONparse(decoded.text),
                                          fetches[k].filename[1])))
             /\ fileOps' = fileOps \o IssuedWrites(reports'[Len(reports')], Len(reports'))
             /\ fetches' = [fetches EXCEPT ![k].phase = "flushed",
                                           ![k].report = Len(reports) + 1]
             /\ UNCHANGED crashed
  /\ UNCHANGED << messages, delivered, imapEnded, closed >>

\* the last stage's 'end' (or a stage's 'error', which has no listener):
\* `new Report(JSON.parse(tlsreport), filename); reports.push(report)`
StreamEnd(k) ==
  /\ ~crashed
  /\ k \in DOMAIN fetches
  /\ fetches[k].phase = "streaming"
  /\ LET decoded == Decode(fetches[k].stages, fetches[k].attachment.body)
     IN IF decoded.error \/ JSONparseThrows(decoded.text)
        THEN /\ crashed' = TRUE
             /\ fetches' = [fetches EXCEPT ![k].phase = "failed"]
             /\ UNCHANGED reports
        ELSE /\ reports' = Append(reports,
                  NewReport(JSONparse(decoded.text), fetches[k].filename[1]))
             /\ fetches' = [fetches EXCEPT ![k].phase = "ended",
                                           ![k].report = Len(reports) + 1]
             /\ UNCHANGED crashed
  /\ UNCHANGED << messages, delivered, imapEnded, fileOps, closed >>

\* imap.once("close"): `for (const report of reports) report.writeReports()`
\* The LOGOUT is answered after every fetch before it.
Close ==
  /\ ~crashed /\ ~closed /\ imapEnded
  /\ \A k \in DOMAIN fetches : fetches[k].phase # "fetching"
  /\ reports' = [ r \in DOMAIN reports |-> processReport(reports[r]) ]
  /\ fileOps' = fileOps \o WritesFrom(reports', 1)
  /\ fetches' = [ k \in DOMAIN fetches |->
                    IF fetches[k].phase = "ended"
                    THEN [fetches[k] EXCEPT !.phase = "flushed"]
                    ELSE fetches[k] ]
  /\ closed' = TRUE
  /\ UNCHANGED << messages, delivered, imapEnded, crashed >>

\* the callback of fs.writeFile, which looks at no error: the write has
\* succeeded or failed, and fs.chown is issued
WriteFileCallback(w) ==
  /\ ~crashed
  /\ w \in DOMAIN fileOps
  /\ fileOps[w].state = "writing"
  /\ \E outcome \in {"ok", "failed"} :
       fileOps' = [fileOps EXCEPT ![w].state = "chowning",
                                  ![w].wrote = outcome,
                                  ![w].owned = "pending"]
  /\ UNCHANGED << messages, delivered, imapEnded, fetches, reports, closed,
                  crashed >>

\* the callback of fs.chown, which looks at no error either; the chown of
\* a file that was not written fails
ChownCallback(w) ==
  /\ ~crashed
  /\ w \in DOMAIN fileOps
  /\ fileOps[w].state = "chowning"
  /\ \E outcome \in {"ok", "failed"} :
       /\ fileOps[w].wrote = "failed" => outcome = "failed"
       /\ fileOps' = [fileOps EXCEPT ![w].state = "done", ![w].owned = outcome]
  /\ UNCHANGED << messages, delivered, imapEnded, fetches, reports, closed,
                  crashed >>

\* --------------------------------- the write-as-you-go program (300-538)
\* Its Report, findAttachment and body handler are those of the first
\* program; its 'end' handler writes at once and there is no 'close'
\* handler.  `reports` holds the Report objects it has constructed.

\* writeReports() with fs.writeFileSync: the writes of the records before
\* place `failing` succeed, the write at that place throws, and no write is
\* made after it (failing = Len(processed): no write fails)
SyncWrites(this, r, failing) ==
  [ k \in 1..Min({failing + 1, Len(ReportWrites(this))}) |->
      [ report   |-> r,
        index    |-> k - 1,
        filename |-> ReportWrites(this)[k].filename,
        data     |-> ReportWrites(this)[k].data,
        state    |-> "done",
        wrote    |-> IF k - 1 = failing THEN "failed" ELSE "ok",
        owned    |-> "none" ] ]

\* the 'end' handler: `new Report(JSON.parse(tlsreport), filename);
\* report.writeReports()`
StreamEndSync(k) ==
  /\ ~crashed
  /\ k \in DOMAIN fetches
  /\ fetches[k].phase = "streaming"
  /\ LET decoded == Decode(fetches[k].stages, fetches[k].attachment.body)
     IN IF decoded.error \/ JSONparseThrows(decoded.text)
        THEN /\ crashed' = TRUE
             /\ fetches' = [fetches EXCEPT ![k].phase = "failed"]
             /\ UNCHANGED << reports, fileOps >>
        ELSE LET this == processReport(NewReport(JSONparse(decoded.text),
                                                 fetches[k].filename[1]))
             IN \E failing \in 0..Len(this.processed) :
                  /\ reports' = Append(reports, this)
                  /\ fileOps' = fileOps \o SyncWrites(this, Len(reports) + 1, failing)
                  /\ crashed' = (failing < Len(this.processed))
                  /\ fetches' = [fetches EXCEPT ![k].phase = "flushed",
                                                ![k].report = Len(reports) + 1]
  /\ UNCHANGED << messages, delivered, imapEnded, closed >>

\* ------------------------------------------------------------- the inputs
\* The reports: the four metadata fields and up to MaxPolicies policies,
\* the policy at place i being for the i-th domain.
Metadata ==
  [ k \in {"organization-name", "date-range", "contact-info", "report-id"} |->
      CASE k = "organization-name" -> "Example Inc."
        [] k = "date-range"        -> [start |-> "2024-01-01", end |-> "2024-01-02"]
        [] k = "contact-info"      -> "tlsrpt@example.org"
        [] k = "report-id"         -> "2024-01-01T00:00:00Z_example.com" ]

Summaries ==
  { ("total-successful-session-count" :> 5),
    ("total-successful-session-count" :> 5)
       @@ ("total-failure-session-count" :> 2) }

Details ==
  { [ k \in {"result-type", "failed-session-count"} |->
        IF k = "result-type" THEN t ELSE 1 ] :
      t \in {"certificate-expired", "starttls-not-supported"} }

DetailLists == UNION { [1..n -> Details] : n \in 0..MaxDetails }

PolicyDetails(i) ==
  [ k \in {"policy-type", "policy-domain"} |->
      IF k = "policy-type" THEN "sts" ELSE i ]

PoliciesAt(i) ==
  LET Plain == { ("policy" :> PolicyDetails(i)) @@ ("summary" :> s) :
                   s \in Summaries }
  IN Plain \cup { p @@ ("failure-details" :> ds) :
                    p \in Plain, ds \in DetailLists }

RECURSIVE PolicyLists(_)
PolicyLists(n) ==
  IF n = 0 THEN { << >> }
  ELSE PolicyLists(n - 1)
         \cup { Append(ps, p) : ps \in { q \in PolicyLists(n - 1) : Len(q) = n - 1 },
                                p \in PoliciesAt(n) }

ReportInputs == { Metadata @@ ("policies" :> ps) : ps \in PolicyLists(MaxPolicies) }

\* The file names: the characters are a letter, the dot and a character
\* that is neither of the class [\w\d_-] nor a dot.
NameChars == {"a", ".", "!"}
FileNames == UNION { [1..n -> NameChars] : n \in 1..MaxNameLen }

\* the parts
Disposition(type, filename) ==
  << [type |-> type, params |-> [filename |-> filename]] >>

Part(disposition, encoding, subtype, body) ==
  [ partID |-> << >>, disposition |-> disposition, encoding |-> encoding,
    subtype |-> subtype, body |-> body ]

PlainBody(text) == [layers |-> << >>, text |-> text]

\* a part that is plain JSON text
JsonPart(disposition, text) ==
  Part(disposition, <<"7","b","i","t">>, <<"j","s","o","n">>, PlainBody(text))

\* the part IDs: each part gets its path in the structure
RECURSIVE Numbered(_, _)
Numbered(node, path) ==
  IF IsArray(node)
  THEN [items |-> [ i \in DOMAIN node.items |->
                      Numbered(node.items[i], Append(path, i)) ]]
  ELSE [node EXCEPT !.partID = path]

Attrs(uid, nodes) ==
  [ uid |-> uid, struct |-> [ i \in DOMAIN nodes |-> Numbered(nodes[i], <<i>>) ] ]

\* the disposition types drawn, and a name for the parts that need one
inline == <<"i","n","l","i","n","e">>
attachment == <<"a","t","t","a","c","h","m","e","n","t">>
Attachment == <<"A","t","t","a","c","h","m","e","n","t">>
formData == <<"f","o","r","m","-","d","a","t","a">>
SampleName == <<"a",".","a">>

\* The parts drawn for a structure: with no disposition, or with a
\* disposition of one of the types.
LeafParts ==
  { JsonPart(<< >>, NotJSON) }
    \cup { JsonPart(Disposition(t, << SampleName >>), NotJSON) :
             t \in {inline, INLINE, Attachment, formData} }

\* the parts on whose selection the code and its documentation agree
AgreedParts ==
  { JsonPart(<< >>, NotJSON),
    JsonPart(Disposition(Attachment, << SampleName >>), NotJSON) }

\* The MIME structures over a set of parts: every list of nodes of n nodes
\* in all, a node being a part or an array of nodes.
RECURSIVE NodesOfSize(_, _)
RECURSIVE ListsOfSize(_, _)
NodesOfSize(n, parts) ==
  IF n = 1 THEN parts \cup { [items |-> << >>] }
  ELSE { [items |-> l] : l \in ListsOfSize(n - 1, parts) }

ListsOfSize(n, parts) ==
  IF n = 0 THEN { << >> }
  ELSE UNION { { <<t>> \o l : t \in NodesOfSize(k, parts),
                              l \in ListsOfSize(n - k, parts) } : k \in 1..n }

Structs(parts) == UNION { ListsOfSize(n, parts) : n \in 0..MaxNodes }

\* The batches of the whole program: one or two multipart messages holding
\* up to MaxAttachments attachments, each attachment one of four kinds.
Policy(i, summary) == ("policy" :> PolicyDetails(i)) @@ ("summary" :> summary)

TwoDetails ==
  [ j \in 1..2 |->
      [ k \in {"result-type", "failed-session-count"} |->
          IF k = "failed-session-count" THEN 1
          ELSE IF j = 1 THEN "certificate-expired" ELSE "starttls-not-supported" ] ]

\* a report of two records, and one of a single record
ReportA ==
  Metadata @@ ("policies" :>
    << Policy(1, ("total-successful-session-count" :> 5)
                   @@ ("total-failure-session-count" :> 2))
         @@ ("failure-details" :> TwoDetails) >>)

ReportB ==
  Metadata @@ ("policies" :> << Policy(1, ("total-successful-session-count" :> 5)) >>)

GzBody(layers, text) == [layers |-> layers, text |-> text]

\* "r.json.gz", base64 of gzip; "p.json", plain; a corrupt gzip stream;
\* a plain text that is no JSON
GzPart ==
  Part(Disposition(attachment, << <<"r",".","j","s","o","n",".","g","z">> >>),
       base64, gzip, GzBody(<<"base64", "gzip">>, JSONstringify(ReportA)))

PlainPart ==
  JsonPart(Disposition(attachment, << <<"p",".","j","s","o","n">> >>),
           JSONstringify(ReportB))

CorruptPart ==
  Part(Disposition(attachment, << <<"c",".","j","s","o","n",".","g","z">> >>),
       base64, gzip, GzBody(<<"base64", "badgzip">>, JSONstringify(ReportB)))

NotJsonPart ==
  JsonPart(Disposition(attachment, << <<"n",".","j","s","o","n">> >>), NotJSON)

PartKinds == { GzPart, PlainPart, CorruptPart, NotJsonPart }

\* the head of a multipart message: the object that describes the multipart
MultipartHead ==
  Part(<< >>, << >>, <<"m","i","x","e","d">>, PlainBody(NotJSON))

\* a multipart message: its head, then each part in an array of its own
Multipart(uid, parts) ==
  Attrs(uid, << MultipartHead >> \o [ i \in DOMAIN parts |-> [items |-> << parts[i] >>] ])

\* the records the parts from place i on flatten to, taking each body's text
\* as it is after a successful decode
RECURSIVE RecordsIn(_, _)
RecordsIn(parts, i) ==
  IF i > Len(parts) THEN 0
  ELSE (IF JSONparseThrows(parts[i].body.text) THEN 0
        ELSE Len(processReport(NewReport(JSONparse(parts[i].body.text),
                                         SampleName)).processed))
       + RecordsIn(parts, i + 1)

Batches ==
  { IF cut = 0 THEN << Multipart(1, parts) >>
    ELSE << Multipart(1, SubSeq(parts, 1, cut)),
            Multipart(2, SubSeq(parts, cut + 1, Len(parts))) >> :
      << parts, cut >> \in
        { pc \in (UNION { [1..n -> PartKinds] : n \in 1..MaxAttachments })
                   \X (0..MaxAttachments) :
            pc[2] < Len(pc[1]) /\ RecordsIn(pc[1], 1) <= MaxRecords } }

\* ------------------------------------------------------ the specifications
Start ==
  /\ delivered = 0
  /\ imapEnded = FALSE
  /\ fetches = << >>
  /\ reports = << >>
  /\ fileOps = << >>
  /\ closed = FALSE
  /\ crashed = FALSE

\* the whole collect-then-flush program on a batch of messages
Init == messages \in Batches /\ Start

Next ==
  \/ MessageAttributes
  \/ FetchEnd
  \/ \E k \in DOMAIN fetches : Body(k)
  \/ \E k \in DOMAIN fetches : StreamEnd(k)
  \/ Close
  \/ \E w \in DOMAIN fileOps : WriteFileCallback(w)
  \/ \E w \in DOMAIN fileOps : ChownCallback(w)

Spec == Init /\ [][Next]_vars

\* one attachment of any file name and any report, up to the writes issued
InitReport ==
  /\ \E f \in FileNames, r \in ReportInputs :
       /\ f = SampleName \/ Len(r["policies"]) = 1
       /\ messages =
            << Multipart(1, << JsonPart(Disposition(attachment, << f >>),
                                        JSONstringify(r)) >>) >>
  /\ Start

NextReport ==
  \/ MessageAttributes
  \/ FetchEnd
  \/ \E k \in DOMAIN fetches : Body(k)
  \/ \E k \in DOMAIN fetches : StreamEnd(k)
  \/ Close

SpecReport == InitReport /\ [][NextReport]_vars

\* one multipart message of up to MaxNodes parts of any disposition, up to
\* the attachments found
InitSelect ==
  /\ \E parts \in UNION { [1..n -> LeafParts] : n \in 1..MaxNodes } :
       messages = << Multipart(1, parts) >>
  /\ Start

NextSelect == MessageAttributes

SpecSelect == InitSelect /\ [][NextSelect]_vars

\* one message of any structure of up to MaxNodes nodes, up to the
\* attachments found
InitTraverse ==
  /\ \E struct \in Structs(AgreedParts) : messages = << Attrs(1, struct) >>
  /\ Start

NextTraverse == MessageAttributes

SpecTraverse == InitTraverse /\ [][NextTraverse]_vars

\* one attachment of any declared encoding and subtype, its bytes under any
\* layers of encoding, up to the 'end' of its stream
Encodings ==
  { base64, <<"B","A","S","E","6","4">>, <<"B","a","s","e","6","4">>,
    <<"7","b","i","t">> }

Subtypes ==
  { gzip, <<"G","Z","I","P">>, <<"x","-","G","Z","i","p">>,
    <<"t","l","s","r","p","t","+","g","z","i","p">>, <<"j","s","o","n">> }

Layerings == { << >>, <<"base64">>, <<"gzip">>, <<"base64", "gzip">> }

InitDecode ==
  /\ \E encoding \in Encodings, subtype \in Subtypes, layers \in Layerings :
       messages =
         << Multipart(1, << Part(Disposition(attachment, << SampleName >>),
                                 encoding, subtype,
                                 GzBody(layers, JSONstringify(ReportA))) >>) >>
  /\ Start

NextDecode ==
  \/ MessageAttributes
  \/ FetchEnd
  \/ \E k \in DOMAIN fetches : Body(k)
  \/ \E k \in DOMAIN fetches : StreamEnd(k)

SpecDecode == InitDecode /\ [][NextDecode]_vars

\* the whole write-as-you-go program on a batch of messages
InitStream == messages \in Batches /\ Start

NextStream ==
  \/ MessageAttributes
  \/ FetchEnd
  \/ \E k \in DOMAIN fetches : Body(k)
  \/ \E k \in DOMAIN fetches : StreamEndSync(k)

SpecStream == InitStream /\ [][NextStream]_vars

\* a valid report in an attachment whose disposition has no filename
\* parameter, and the batches that hold such an attachment
NoNamePart == JsonPart(Disposition(attachment, << >>), JSONstringify(ReportB))

UnnamedBatches ==
  { IF cut = 0 THEN << Multipart(1, parts) >>
    ELSE << Multipart(1, SubSeq(parts, 1, cut)),
            Multipart(2, SubSeq(parts, cut + 1, Len(parts))) >> :
      << parts, cut >> \in
        { pc \in (UNION { [1..n -> {NoNamePart, GzPart, PlainPart}] :
                            n \in 1..MaxAttachments })
                   \X (0..MaxAttachments) :
            pc[2] < Len(pc[1]) /\ NoNamePart \in Range(pc[1]) } }

InitUnnamed == messages \in UnnamedBatches /\ Start

SpecUnnamed == InitUnnamed /\ [][Next]_vars

\* ------------------------------------------------------------- the claims
Max(a, b) == IF a >= b THEN a ELSE b

\* the fetches whose Report has had writeReports() run
Flushed == { k \in DOMAIN fetches : fetches[k].phase = "flushed" }

\* the Report object of a fetch, the report its body holds, and the file
\* name of its attachment
ReportOf(k) == reports[fetches[k].report]
InputOf(k) == JSONparse(fetches[k].attachment.body.text)
OriginalName(k) == fetches[k].attachment.disposition[1].params.filename[1]

\* the length of a policy's failure-details, 0 when it has none
DetailCount(policy) ==
  IF "failure-details" \in DOMAIN policy THEN Len(policy["failure-details"]) ELSE 0

\* the places in `processed` of the records of the policy at place i
RecordsOfPolicy(this, i) ==
  { j \in DOMAIN this.processed :
      this.processed[j]["policies"]["policy"] = this.policies[i]["policy"] }

\* C1: for every policy of a flattened report, the number of records
\* emitted for it is max(1, n), n the length of its failure-details (0 when
\* the field is absent and when it is an empty array).
C1_RecordCount ==
  \A k \in Flushed : \A i \in DOMAIN InputOf(k)["policies"] :
    Cardinality(RecordsOfPolicy(ReportOf(k), i))
      = Max(1, DetailCount(InputOf(k)["policies"][i]))

\* C2: the file names of the records of one attachment are pairwise
\* distinct.
C2_DistinctNames ==
  \A v, w \in DOMAIN fileOps :
    (v # w /\ fileOps[v].report = fileOps[w].report)
      => fileOps[v].filename # fileOps[w].filename

\* an attachment whose bytes decode to a text that parses
Decodes(k) ==
  LET decoded == Decode(DecoderStages(fetches[k].attachment),
                        fetches[k].attachment.body)
  IN ~decoded.error /\ ~JSONparseThrows(decoded.text)

\* every record of the attachment has been written to its file
AllWritten(k) ==
  /\ k \in Flushed
  /\ Len(ReportOf(k).processed) >= 1
  /\ \A j \in DOMAIN ReportOf(k).processed :
       \E w \in DOMAIN fileOps :
         /\ fileOps[w].report = fetches[k].report
         /\ fileOps[w].index = j - 1
         /\ fileOps[w].state # "writing"

\* nothing more can happen
Settled ==
  \/ crashed
  \/ /\ closed
     /\ \A k \in DOMAIN fetches : fetches[k].phase \notin {"fetching", "streaming"}
     /\ \A w \in DOMAIN fileOps : fileOps[w].state = "done"

\* C3: when an attachment fails to decode or to parse, it yields no record
\* and, once the run is over, every other attachment that decodes has all
\* of its records written.
C3_FailureIsolated ==
  (Settled /\ \E k \in DOMAIN fetches : fetches[k].phase = "failed")
    => \A j \in DOMAIN fetches :
         /\ fetches[j].phase = "failed" => fetches[j].report = 0
         /\ Decodes(j) => AllWritten(j)

\* the parts of a structure, in the order of the tree
RECURSIVE PartsOfNode(_)
RECURSIVE PartsOfList(_)
PartsOfNode(node) ==
  IF IsArray(node) THEN PartsOfList(node.items) ELSE << node >>

PartsOfList(nodes) ==
  IF nodes = << >> THEN << >>
  ELSE PartsOfNode(Head(nodes)) \o PartsOfList(Tail(nodes))

\* a part with a disposition of type INLINE or ATTACHMENT, in any case
Qualifies(part) ==
  /\ part.disposition # << >>
  /\ toUpperCase(part.disposition[1].type) \in {INLINE, ATTACHMENT}

\* the attachments found in the first message
Found == [ k \in DOMAIN fetches |-> fetches[k].attachment ]

\* C4: findAttachment returns a part if and only if the part has a
\* disposition of type INLINE or ATTACHMENT, compared without case.
C4_SelectsInlineAndAttachment ==
  delivered = 1 =>
    \A part \in Range(PartsOfList(messages[1].struct)) :
      (part \in Range(Found)) <=> Qualifies(part)

\* the flattening of the documentation: the policies in order, the
\* failure details of each in order, one record without detail for a
\* policy that has none
ReferenceRecords(metadata, policy) ==
  LET core == ("policy" :> policy["policy"])
                @@ ("summary" :> DeleteProperty(policy["summary"],
                                                "total-failure-session-count"))
  IN IF DetailCount(policy) = 0
     THEN << metadata @@ ("policies" :> core) >>
     ELSE [ j \in 1..DetailCount(policy) |->
              metadata @@ ("policies" :>
                (core @@ ("failure-details" :> policy["failure-details"][j]))) ]

RECURSIVE ReferenceFrom(_, _)
ReferenceFrom(report, i) ==
  IF i > Len(report["policies"]) THEN << >>
  ELSE ReferenceRecords(DeleteProperty(report, "policies"), report["policies"][i])
         \o ReferenceFrom(report, i + 1)

\* C5: the records of a flattened report are the reference flattening of
\* the report, in its order.
C5_ReferenceFlattening ==
  \A k \in Flushed : ReportOf(k).processed = ReferenceFrom(InputOf(k), 1)

\* C6: no record of `processed`, and no record given to a file, has a
\* total-failure-session-count in its summary.
C6_NoFailureCount ==
  /\ \A r \in DOMAIN reports : \A j \in DOMAIN reports[r].processed :
       "total-failure-session-count"
          \notin DOMAIN reports[r].processed[j]["policies"]["summary"]
  /\ \A w \in DOMAIN fileOps :
       "total-failure-session-count"
          \notin DOMAIN JSONparse(fileOps[w].data)["policies"]["summary"]

\* a report whose policy had the count has been flattened and handed to a
\* file
C6_Witness ==
  \E k \in Flushed : \E i \in DOMAIN InputOf(k)["policies"] :
    /\ "total-failure-session-count" \in DOMAIN InputOf(k)["policies"][i]["summary"]
    /\ RecordsOfPolicy(ReportOf(k), i) # {}
    /\ \E w \in DOMAIN fileOps : fileOps[w].report = fetches[k].report

\* C7: every Report pushed to `reports` has writeReports() run on it: the
\* 'close' handler runs once, so that after it no Report is left unwritten.
C7_EveryReportFlushed ==
  closed => \A k \in DOMAIN fetches : fetches[k].phase # "ended"

\* C8: no file write is issued before the 'close' handler has run.
C8_NoWriteBeforeClose == fileOps # << >> => closed

\* reports were pushed while the session was open and written at its close
C8_Witness ==
  /\ closed
  /\ Len(reports) >= 2
  /\ \A r \in DOMAIN reports : \E w \in DOMAIN fileOps : fileOps[w].report = r

\* C9: the record at index i is written as <base>-<i><extension>, base
\* the name given to the Report (the attachment's name without its final
\* extension) and extension what was taken off it (nothing when the name
\* had none).
C9_IndexedName ==
  \A w \in DOMAIN fileOps :
    \A k \in Flushed :
      fetches[k].report = fileOps[w].report =>
        fileOps[w].filename =
          fetches[k].filename[1] \o <<"-">> \o NumberToString(fileOps[w].index)
            \o SubSeq(OriginalName(k), Len(fetches[k].filename[1]) + 1,
                      Len(OriginalName(k)))

RECURSIVE IsSubsequence(_, _)
IsSubsequence(a, b) ==
  IF a = << >> THEN TRUE
  ELSE IF b = << >> THEN FALSE
  ELSE IF Head(a) = Head(b) THEN IsSubsequence(Tail(a), Tail(b))
  ELSE IsSubsequence(a, Tail(b))

\* C10: every part with a qualifying disposition, at any depth of the
\* structure, is in the result, in the order of the tree.
C10_EveryDepthInOrder ==
  delivered = 1 =>
    IsSubsequence(SelectSeq(PartsOfList(messages[1].struct), Qualifies), Found)

\* the fetches whose body handler has chosen the stages
Piped == { k \in DOMAIN fetches :
             fetches[k].phase \in {"streaming", "ended", "failed", "flushed"} }

\* C11: the stages chosen are a base64 decoder if and only if the encoding
\* is "base64" in any case, and a gzip inflater if and only if the subtype
\* contains "gzip" in any case; no stage when neither holds.
C11_StagesByMetadata ==
  \A k \in Piped :
    /\ ("Base64Decode" \in Range(fetches[k].stages))
         <=> (toLowerCase(fetches[k].attachment.encoding) = base64)
    /\ ("Gunzip" \in Range(fetches[k].stages))
         <=> (search(toLowerCase(fetches[k].attachment.subtype), gzip) # -1)
    /\ Range(fetches[k].stages) \subseteq {"Base64Decode", "Gunzip"}

\* the place of a stage in a chain
StagePlace(stages, stage) == Min({ i \in DOMAIN stages : stages[i] = stage })

\* C12: when both stages are in the chain the base64 decoder comes before
\* the gzip inflater, so that base64 of gzip bytes decode to the text that
\* was encoded; and a text is parsed into a Report only at the 'end' of the
\* chain, never while the stream is still flowing.
C12_Base64BeforeGunzip ==
  \A k \in Piped :
    /\ {"Base64Decode", "Gunzip"} \subseteq Range(fetches[k].stages)
         => /\ StagePlace(fetches[k].stages, "Base64Decode")
                 < StagePlace(fetches[k].stages, "Gunzip")
            /\ (fetches[k].attachment.body.layers = <<"base64", "gzip">>
                  /\ fetches[k].phase # "streaming")
                 => /\ fetches[k].phase = "ended"
                    /\ ReportOf(k)
                         = NewReport(InputOf(k), fetches[k].filename[1])
    /\ fetches[k].phase = "streaming" => fetches[k].report = 0
    /\ fetches[k].report # 0 => fetches[k].phase \in {"ended", "flushed"}

\* base64 of gzip went through both stages and was parsed at the end
C12_Witness ==
  \E k \in DOMAIN fetches :
    /\ fetches[k].stages = <<"Base64Decode", "Gunzip">>
    /\ fetches[k].attachment.body.layers = <<"base64", "gzip">>
    /\ fetches[k].phase = "ended"
    /\ ReportOf(k).policies = ReportA["policies"]

\* a write has been issued for every record of the attachment
WritesIssued(k) ==
  /\ k \in Flushed
  /\ \A j \in DOMAIN ReportOf(k).processed :
       \E w \in DOMAIN fileOps :
         fileOps[w].report = fetches[k].report /\ fileOps[w].index = j - 1

\* C13: when the write of a record fails, a write is still issued for every
\* later record of its Report and, by the end of the run, for the records
\* of every other attachment that decodes.
C13_WriteFailureIsolated ==
  \A w \in DOMAIN fileOps :
    fileOps[w].wrote = "failed" =>
      /\ \A j \in (fileOps[w].index + 1)..(Len(reports[fileOps[w].report].processed) - 1) :
           \E v \in DOMAIN fileOps :
             fileOps[v].report = fileOps[w].report /\ fileOps[v].index = j
      /\ (crashed \/ \A k \in DOMAIN fetches :
                       fetches[k].phase \notin {"fetching", "streaming"})
           => \A k \in DOMAIN fetches : Decodes(k) => WritesIssued(k)

\* the parts of every message that have a disposition without a filename
UnnamedParts ==
  { part \in UNION { Range(PartsOfList(messages[i].struct)) : i \in DOMAIN messages } :
      part.disposition # << >> /\ part.disposition[1].params.filename = << >> }

\* C14: an attachment without a filename is selected by findAttachment,
\* yields no record, and once the run is over every other attachment that
\* decodes has all of its records written.
C14_UnnamedFailsAlone ==
  /\ delivered = Len(messages) =>
       \A part \in UnnamedParts :
         \E k \in DOMAIN fetches : fetches[k].attachment = part
  /\ (Settled /\ \E k \in DOMAIN fetches : fetches[k].phase = "rejected")
       => \A j \in DOMAIN fetches :
            IF FilenameThrows(fetches[j].attachment)
            THEN fetches[j].report = 0
            ELSE Decodes(j) => AllWritten(j)

\* C15: a file's chown is issued only after its writeFile callback has
\* fired, and a failed chown changes nothing but that file's ownership
\* result: the written data stays, every other write and chown stays as it
\* was, and the process goes on.
C15_ChownAfterWrite ==
  /\ [](\A w \in DOMAIN fileOps :
          fileOps[w].owned # "none" => fileOps[w].wrote # "pending")
  /\ [][\A w \in DOMAIN fileOps :
          (fileOps[w].owned = "pending" /\ fileOps'[w].owned = "failed") =>
            /\ DOMAIN fileOps' = DOMAIN fileOps
            /\ fileOps'[w] = [fileOps[w] EXCEPT !.state = "done",
                                                !.owned = "failed"]
            /\ \A v \in DOMAIN fileOps \ {w} : fileOps'[v] = fileOps[v]
            /\ crashed' = crashed]_vars

\* a written file whose chown failed, and another record written and owned
C15_Witness ==
  \E w, v \in DOMAIN fileOps :
    /\ w < v
    /\ fileOps[w].wrote = "ok" /\ fileOps[w].owned = "failed"
    /\ fileOps[v].wrote = "ok" /\ fileOps[v].owned = "ok"
    /\ ~crashed

\* C16: the writes of one attachment are issued in the order of its
\* records: the write of the record at index i comes before the write of
\* the record at index i+1.  (`fileOps` is in the order of the calls.)
C16_IssuedInRecordOrder ==
  \A v, w \in DOMAIN fileOps :
    (fileOps[v].report = fileOps[w].report
       /\ fileOps[w].index = fileOps[v].index + 1)
      => /\ v < w
         /\ fileOps[v].data = JSONstringify(reports[fileOps[v].report].processed[fileOps[v].index + 1])
         /\ fileOps[w].data = JSONstringify(reports[fileOps[w].report].processed[fileOps[w].index + 1])

\* two records of one attachment issued in order, and the write of a later
\* attachment completed while one of the earlier attachment is under way
C16_Witness ==
  \E u, v, w \in DOMAIN fileOps :
    /\ fileOps[u].report = fileOps[v].report
    /\ fileOps[u].index = 0 /\ fileOps[v].index = 1 /\ u < v
    /\ fileOps[w].report > fileOps[v].report
    /\ fileOps[w].wrote = "ok"
    /\ fileOps[v].state = "writing"

\* the number of records the policies from place i on flatten to
RECURSIVE RecordTotal(_, _)
RecordTotal(policies, i) ==
  IF i > Len(policies) THEN 0
  ELSE (IF "failure-details" \in DOMAIN policies[i]
        THEN Len(policies[i]["failure-details"]) ELSE 1)
       + RecordTotal(policies, i + 1)

\* the writes issued for the Report at place r of `reports`
WritesOf(r) == { w \in DOMAIN fileOps : fileOps[w].report = r }

\* C17: a Report is processed and written once: `processed` holds one copy
\* of its n flattened records, n counted across all its policies, and the
\* indices of its writes are 0..n-1, each used once.
C17_ProcessedOnce ==
  \A k \in Flushed :
    LET n == RecordTotal(InputOf(k)["policies"], 1)
    IN /\ Len(ReportOf(k).processed) = n
       /\ { fileOps[w].index : w \in WritesOf(fetches[k].report) } = 0..(n - 1)
       /\ Cardinality(WritesOf(fetches[k].report)) = n

\* a written Report of two policies, the second of which has its records
\* numbered on from those of the first
C17_Witness ==
  \E k \in Flushed :
    /\ Len(InputOf(k)["policies"]) = 2
    /\ RecordTotal(InputOf(k)["policies"], 2) >= 1
    /\ RecordTotal(InputOf(k)["policies"], 1) >= 3
    /\ Cardinality(WritesOf(fetches[k].report)) >= 3

====
